---- MODULE Spec2Model ----
(***************************************************************************)
(* Document ingestion and chunking pipeline of the medical chatbot         *)
(* (src/End-to-End-medical-Chatbot-main/src/helper.py) and the ingestion   *)
(* script that runs it (src/End-to-End-medical-Chatbot-main/store_index.py),*)
(* the chatbot's web servers (app.py, simple_app.py) and the request       *)
(* handlers of the transcription tool (src/transcription-tool/backend/app: *)
(* main.py, transcription.py, models.py).                                  *)
(*                                                                         *)
(* Text is a sequence of one-character strings.  A piece of text carries   *)
(* the offset (0-based) at which it lies in the document it was cut from:  *)
(* [off |-> offset, txt |-> characters].  The offset is bookkeeping of the *)
(* model only; no operator's result depends on it.                         *)
(***************************************************************************)
EXTENDS Integers, Sequences, FiniteSets, TLC

\* ---------------------------------------------------------------- bounds
MaxLen == 5        \* longest document content of SpecText
MaxChunk == 4      \* largest chunk_size / chunk_overlap tried
MaxDocs == 2       \* most documents in one call (SpecSplit)
MaxDocChars == 3   \* most characters over all documents of one call (SpecSplit)
MaxFiles == 3      \* most *.pdf files in the directory (SpecLoad)
MaxPages == 3      \* most pages over all files of the directory (SpecLoad)

\* ------------------------------------------------------------------ text
Chars == {"a", ".", ",", " ", "\n"}
SmallChars == {"a", " "}

\* str.strip() removes these (the whitespace of the alphabet).
IsWhitespace(c) == c \in {" ", "\n"}

StringsOver(alphabet, n) == UNION {[1..k -> alphabet] : k \in 0..n}

MinOf(S) == CHOOSE x \in S : \A y \in S : x <= y
MaxOf(S) == CHOOSE x \in S : \A y \in S : x >= y

\* p.strip() of a piece: leading and trailing whitespace removed.
strip(p) ==
    LET keep == {i \in 1..Len(p.txt) : ~IsWhitespace(p.txt[i])}
    IN  IF keep = {} THEN [off |-> p.off, txt |-> <<>>]
        ELSE [off |-> p.off + MinOf(keep) - 1,
              txt |-> SubSeq(p.txt, MinOf(keep), MaxOf(keep))]

\* The separators handed to RecursiveCharacterTextSplitter, highest priority first.
Separators ==
    << <<"\n", "\n">>, <<"\n">>, <<".", " ">>, <<"?", " ">>, <<"!", " ">>,
       <<";", " ">>, <<",", " ">>, <<" ">>, <<>> >>

MatchAt(t, sep, i) ==
    /\ i + Len(sep) - 1 <= Len(t)
    /\ \A j \in 1..Len(sep) : t[i + j - 1] = sep[j]

\* re.search(re.escape(sep), t) for a non-empty sep.
Contains(t, sep) == \E i \in 1..Len(t) : MatchAt(t, sep, i)

\* Start positions of the non-overlapping matches of sep, scanning left to right
\* (the matches re.split cuts at).
RECURSIVE MatchStarts(_, _, _)
MatchStarts(t, sep, i) ==
    IF i + Len(sep) - 1 > Len(t) THEN <<>>
    ELSE IF MatchAt(t, sep, i)
         THEN <<i>> \o MatchStarts(t, sep, i + Len(sep))
         ELSE MatchStarts(t, sep, i + 1)

\* Mutant: the text in front of the first separator is lost.
split_text_with_regex_drop_first(p, sep) ==
    IF sep = <<>>
    THEN [i \in 1..Len(p.txt) |-> [off |-> p.off + i - 1, txt |-> <<p.txt[i]>>]]
    ELSE LET ms == MatchStarts(p.txt, sep, 1)
             cuts == ms \o <<Len(p.txt) + 1>>
         IN  [k \in 1..Len(ms) |->
                [off |-> p.off + cuts[k] - 1,
                 txt |-> SubSeq(p.txt, cuts[k], cuts[k + 1] - 1)]]

\* _split_text_with_regex(text, separator, keep_separator=True): the text cut in
\* front of every match, so each separator starts the piece after it; list(text)
\* for the empty separator; empty pieces dropped.
split_text_with_regex(p, sep) ==
    IF sep = <<>>
    THEN [i \in 1..Len(p.txt) |-> [off |-> p.off + i - 1, txt |-> <<p.txt[i]>>]]
    ELSE LET ms   == MatchStarts(p.txt, sep, 1)
             cuts == <<1>> \o ms \o <<Len(p.txt) + 1>>
             raw  == [k \in 1..(Len(ms) + 1) |->
                        [off |-> p.off + cuts[k] - 1,
                         txt |-> SubSeq(p.txt, cuts[k], cuts[k + 1] - 1)]]
         IN  SelectSeq(raw, LAMBDA q : q.txt # <<>>)

RECURSIVE ConcatTxt(_)
ConcatTxt(ps) == IF ps = <<>> THEN <<>> ELSE Head(ps).txt \o ConcatTxt(Tail(ps))

\* _join_docs(current_doc, ""): the pieces joined and stripped; None (here <<>>)
\* when nothing is left, else the one chunk.  window is the offset of the first
\* piece joined, before stripping.
join_docs(current_doc) ==
    IF current_doc = <<>> THEN <<>>
    ELSE LET joined == [off |-> current_doc[1].off, txt |-> ConcatTxt(current_doc)]
             text   == strip(joined)
         IN  IF text.txt = <<>> THEN <<>>
             ELSE << [off |-> text.off, txt |-> text.txt, window |-> joined.off] >>

\* Mutant: nothing is popped after a chunk is emitted, so the next chunk is joined
\* from the same first piece.
pop_overlap_keep(current_doc, total, len, cs, ov) == [doc |-> current_doc, total |-> total]

\* Mutant: one piece more than chunk_overlap allows is kept.
RECURSIVE pop_overlap_late(_, _, _, _, _)
pop_overlap_late(current_doc, total, len, cs, ov) ==
    IF total > ov + 1 \/ (total + len > cs /\ total > 0)
    THEN pop_overlap_late(Tail(current_doc), total - Len(Head(current_doc).txt),
                          len, cs, ov)
    ELSE [doc |-> current_doc, total |-> total]

\* The popping loop of _merge_splits (separator_len = 0 with keep_separator=True):
\*   while total > chunk_overlap or (total + _len > chunk_size and total > 0)
RECURSIVE pop_overlap(_, _, _, _, _)
pop_overlap(current_doc, total, len, cs, ov) ==
    IF total > ov \/ (total + len > cs /\ total > 0)
    THEN pop_overlap(Tail(current_doc), total - Len(Head(current_doc).txt), len, cs, ov)
    ELSE [doc |-> current_doc, total |-> total]

\* The for loop of _merge_splits over splits[i..].
RECURSIVE merge_loop(_, _, _, _, _, _, _)
merge_loop(splits, i, docs, current_doc, total, cs, ov) ==
    IF i > Len(splits) THEN docs \o join_docs(current_doc)
    ELSE LET d   == splits[i]
             len == Len(d.txt)
         IN  IF total + len > cs /\ Len(current_doc) > 0
             THEN LET popped == pop_overlap(current_doc, total, len, cs, ov)
                  IN  merge_loop(splits, i + 1, docs \o join_docs(current_doc),
                                 Append(popped.doc, d), popped.total + len, cs, ov)
             ELSE merge_loop(splits, i + 1, docs, Append(current_doc, d),
                             total + len, cs, ov)

\* Mutant: the size test of the merge off by one.
merge_splits_lenient(splits, cs, ov) == merge_loop(splits, 1, <<>>, <<>>, 0, cs + 1, ov)

merge_splits(splits, cs, ov) == merge_loop(splits, 1, <<>>, <<>>, 0, cs, ov)

\* A piece appended to final_chunks as it is (no strip).
AsChunk(p) == [off |-> p.off, txt |-> p.txt, window |-> p.off]

\* RecursiveCharacterTextSplitter._split_text(text, separators).
RECURSIVE split_text(_, _, _, _)
RECURSIVE split_loop(_, _, _, _, _, _, _)
split_loop(splits, j, good_splits, final_chunks, new_separators, cs, ov) ==
    IF j > Len(splits)
    THEN final_chunks \o merge_splits(good_splits, cs, ov)
    ELSE LET s == splits[j]
         IN  IF Len(s.txt) < cs
             THEN split_loop(splits, j + 1, Append(good_splits, s), final_chunks,
                             new_separators, cs, ov)
             ELSE LET flushed == final_chunks \o merge_splits(good_splits, cs, ov)
                      other   == IF new_separators = <<>> THEN << AsChunk(s) >>
                                 ELSE split_text(s, new_separators, cs, ov)
                  IN  split_loop(splits, j + 1, <<>>, flushed \o other,
                                 new_separators, cs, ov)

\* Mutant: the text is cut into characters whatever separators it holds.
split_text_characters(p, separators, cs, ov) ==
    split_loop(split_text_with_regex(p, <<>>), 1, <<>>, <<>>, <<>>, cs, ov)

split_text(p, separators, cs, ov) ==
    LET usable == {i \in 1..Len(separators) :
                     separators[i] = <<>> \/ Contains(p.txt, separators[i])}
        i      == IF usable = {} THEN Len(separators) ELSE MinOf(usable)
        separator      == separators[i]
        new_separators == IF usable = {} \/ separator = <<>> THEN <<>>
                          ELSE SubSeq(separators, i + 1, Len(separators))
    IN  split_loop(split_text_with_regex(p, separator), 1, <<>>, <<>>,
                   new_separators, cs, ov)

\* medical_text_splitter.split_documents([document]): the chunks of one document.
split_documents(document, cs, ov) ==
    split_text([off |-> 0, txt |-> document.page_content], Separators, cs, ov)

\* -------------------------------------------------------------- metadata
\* The metadata the directory loader gives a document (helper.py 100-105).
LoaderMeta ==
    [source |-> "Documents/a.pdf", filename |-> "a.pdf",
     document_type |-> "medical_pdf", page_count |-> 1]

\* The metadata of a document that is itself a chunk of an earlier call.
RechunkMeta ==
    [source |-> "Documents/a.pdf", chunk_index |-> 1, total_chunks |-> 2,
     chunk_size |-> 3, parent_document_index |-> 1]

MetaChoices == {LoaderMeta, RechunkMeta}

\* dict.update: the keys of upd are written over those of m.
dict_update(m, upd) ==
    [k \in (DOMAIN m) \cup (DOMAIN upd) |-> IF k \in DOMAIN upd THEN upd[k] ELSE m[k]]

\* Mutant: chunks are numbered from 1.
enhanced_metadata_one_based(document, chunk_index, total_chunks, chunk, doc_index) ==
    dict_update(document.metadata,
                [chunk_index |-> chunk_index + 1,
                 total_chunks |-> total_chunks,
                 chunk_size |-> Len(chunk.txt),
                 parent_document_index |-> doc_index])

\* enhanced_metadata of chunk number chunk_index (0-based) of document doc_index.
\* The start_index key that add_start_index=True puts on the chunk is not in it:
\* chunk.metadata is replaced, not updated.
enhanced_metadata(document, chunk_index, total_chunks, chunk, doc_index) ==
    dict_update(document.metadata,
                [chunk_index |-> chunk_index,
                 total_chunks |-> total_chunks,
                 chunk_size |-> Len(chunk.txt),
                 parent_document_index |-> doc_index])

\* An element of the documents list that is not a Document (None): it has no
\* metadata attribute.
NotADocument == [page_content |-> <<>>, metadata |-> [not_a_document |-> TRUE]]

\* Lines 196-197: document.metadata.get(...) raises AttributeError for an
\* element without a metadata attribute, inside the try of the document.
chunking_raises(document) == document = NotADocument

\* The chunks of documents[doc_index + 1] with their metadata enhanced
\* (lines 200-212).  start and window record where the chunk lies in its
\* document (start) and where the pieces it was joined from begin (window).
document_chunks(document, doc_index, cs, ov) ==
    LET chunks == split_documents(document, cs, ov)
    IN  [c \in 1..Len(chunks) |->
           [page_content |-> chunks[c].txt,
            metadata |-> enhanced_metadata(document, c - 1, Len(chunks), chunks[c], doc_index),
            parent |-> doc_index,
            start |-> chunks[c].off,
            window |-> chunks[c].window]]

\* Mutant: the error of one document throws away what was collected before it.
chunks_after_error_reset(collected) == <<>>

\* Lines 219-221: the error of one document is logged and the loop continues;
\* all_document_chunks is as it was before the document.
chunks_after_error(collected) == collected

\* Mutant: the chunk keys are written to the document's own mapping (no copy).
metadata_after_enhancement_aliased(document, chunks) ==
    IF chunks = <<>> THEN document.metadata ELSE chunks[Len(chunks)].metadata

\* Line 205: enhanced_metadata is a copy, so update() and the assignment to
\* chunk.metadata leave document.metadata as it is.
metadata_after_enhancement(document, chunks) == document.metadata

\* Mutant: chunk_overlap == chunk_size passes the check.
InvalidParameters_lenient(cs, ov) == cs <= 0 \/ ov < 0 \/ ov > cs

\* The parameter check of split_documents_into_semantic_chunks.
InvalidParameters(cs, ov) == cs <= 0 \/ ov < 0 \/ ov >= cs

\* Mutant: an empty list of documents is refused.
split_entry_empty_is_error(docs, cs, ov) ==
    IF cs <= 0 \/ ov < 0 \/ ov >= cs \/ docs = <<>>
    THEN [pc |-> "raised", error |-> "ValueError"]
    ELSE [pc |-> "loop", error |-> "none"]

\* Lines 159-169: ValueError for invalid parameters, else [] at once for no
\* documents, else the loop.
split_entry(docs, cs, ov) ==
    IF InvalidParameters(cs, ov) THEN [pc |-> "raised", error |-> "ValueError"]
    ELSE IF docs = <<>> THEN [pc |-> "returned", error |-> "none"]
    ELSE [pc |-> "loop", error |-> "none"]

\* ----------------------------------------------------------------- state
VARIABLES
    documents,            \* the documents argument
    chunk_size,           \* the chunk_size argument
    chunk_overlap,        \* the chunk_overlap argument
    split_pc,             \* "idle", "start", "loop", "returned", "raised"
    doc_index,            \* index of the next document of the loop (0-based)
    all_document_chunks,  \* the chunks collected so far
    split_error,          \* the exception raised: "none", "ValueError"
    call_number,          \* 1 in the first call on documents, 2 in a repeated call
    first_result,         \* what the first call returned, once a second is made
    path_kind,            \* what data_directory names: "missing", "file", "dir"
    pdf_files,            \* the files data_path.glob("*.pdf") enumerates, in its order,
                          \* with what opening and reading each has given so far
    load_pc,              \* "idle", "start", "files", "parse", "pages", "returned", "raised"
    file_idx,             \* number of files the for loop is done with
    page_number,          \* number of pages of the open file the page loop is done with
    document_text,        \* the text collected from the open file
    extracted_documents,  \* the documents collected so far
    open_handles,         \* the files (by position) whose handle is open
    opened,               \* the files (by position) open() was called on, in order
    load_error,           \* the exception raised: "none", "FileNotFoundError", "ValueError"
    ingest_pc,            \* store_index.py: "idle", "start", "load", "split", "embed",
                          \* "create_index", "store", "done", "raised"
    embed_pc,             \* initialize_medical_embedding_model: "idle", "construct",
                          \* "test", "returned"
    medical_embeddings,   \* the model object: "unset", "model"
    self_test,            \* embed_query(test_query): "not_run", "passed", "failed"
    embeddings,           \* what the initializer returned: "unset", "model", "None"
    index_created,        \* pc.create_index(...) has created the index
    docsearch,            \* the vector store: "unset", "store"
    chat_app,             \* the chatbot that runs: "none", "app", "simple_app"
    chat_pc,              \* "idle", "start", "embeddings", "retriever", "llm", "chain",
                          \* "initialized", "serving", "exited"
    medical_embeddings_model,    \* app.py globals: "None" or the object
    medical_document_retriever,
    medical_language_model,
    medical_rag_chain,
    initialized,          \* what initialize_medical_chatbot_system returned:
                          \* "unset", "True", "False"
    chat_request,         \* the request the chatbot answered last
    chat_response,        \* and the answer to it
    chat_handled,         \* number of requests the chatbot has received
    chat_in_flight,       \* app.py: the requests to /get that wait in
                          \* medical_rag_chain.invoke, each in a thread of its own
    tool_requests,        \* transcription tool: the requests, each with its progress
    running,              \* the request the event loop is running (0: none)
    _model,               \* transcription.py: the cached handle, 0 (None) or the number
                          \* of the load that made it
    load_count,           \* number of whisper.load_model calls made
    temp_files            \* the temporary files that exist, by request

split_vars == <<documents, chunk_size, chunk_overlap, split_pc, doc_index,
                all_document_chunks, split_error, call_number, first_result>>
load_vars == <<path_kind, pdf_files, load_pc, file_idx, page_number, document_text,
               extracted_documents, open_handles, opened, load_error>>
ingest_vars == <<ingest_pc, embed_pc, medical_embeddings, self_test, embeddings,
                 index_created, docsearch>>
chat_vars == <<chat_app, chat_pc, medical_embeddings_model, medical_document_retriever,
               medical_language_model, medical_rag_chain, initialized, chat_request,
               chat_response, chat_handled,
                   chat_in_flight>>
tool_vars == <<tool_requests, running, _model, load_count, temp_files>>
web_vars == <<chat_vars, tool_vars>>
vars == <<split_vars, load_vars, ingest_vars, web_vars>>

NoOutcome == [kind |-> "none", exc |-> "none", answer |-> <<>>]
NoRequest == [route |-> "none", has_msg |-> FALSE, msg |-> <<>>, outcome |-> NoOutcome]
NoResponse == [status |-> 0, body |-> <<>>, invoked |-> FALSE, question |-> <<>>]

\* No chatbot is running.
ChatIdle ==
    /\ chat_app = "none"
    /\ chat_pc = "idle"
    /\ medical_embeddings_model = "None"
    /\ medical_document_retriever = "None"
    /\ medical_language_model = "None"
    /\ medical_rag_chain = "None"
    /\ initialized = "unset"
    /\ chat_request = NoRequest
    /\ chat_response = NoResponse
    /\ chat_handled = 0
    /\ chat_in_flight = <<>>

\* The transcription tool is not running.
ToolIdle ==
    /\ tool_requests = <<>>
    /\ running = 0
    /\ _model = 0
    /\ load_count = 0
    /\ temp_files = {}

WebIdle == ChatIdle /\ ToolIdle

\* store_index.py is not running.
IngestIdle ==
    /\ ingest_pc = "idle"
    /\ embed_pc = "idle"
    /\ medical_embeddings = "unset"
    /\ self_test = "not_run"
    /\ embeddings = "unset"
    /\ index_created = FALSE
    /\ docsearch = "unset"

\* Before a second call there is no first result to compare with.
NoResult == [pc |-> "none", error |-> "none", chunks |-> <<>>]

ParameterPairs == (0..MaxChunk) \X ((-1)..MaxChunk)

SplitStart ==
    /\ split_pc = "start"
    /\ doc_index = 0
    /\ all_document_chunks = <<>>
    /\ split_error = "none"
    /\ call_number = 1
    /\ first_result = NoResult

\* No call of load_medical_documents_from_directory is under way.
LoadIdle ==
    /\ path_kind = "dir"
    /\ pdf_files = <<>>
    /\ load_pc = "idle"
    /\ file_idx = 0
    /\ page_number = 0
    /\ document_text = <<>>
    /\ extracted_documents = <<>>
    /\ open_handles = {}
    /\ opened = <<>>
    /\ load_error = "none"

\* No call of split_documents_into_semantic_chunks is under way.
SplitIdle ==
    /\ documents = <<>>
    /\ chunk_size = 1
    /\ chunk_overlap = 0
    /\ split_pc = "idle"
    /\ doc_index = 0
    /\ all_document_chunks = <<>>
    /\ split_error = "none"
    /\ call_number = 1
    /\ first_result = NoResult

\* One document with any content over Chars.
InitText ==
    /\ \E s \in StringsOver(Chars, MaxLen) :
          documents = << [page_content |-> s, metadata |-> LoaderMeta] >>
    /\ \E p \in ParameterPairs : chunk_size = p[1] /\ chunk_overlap = p[2]
    /\ SplitStart
    /\ LoadIdle
    /\ IngestIdle
    /\ WebIdle

RECURSIVE TotalChars(_)
TotalChars(ds) == IF ds = <<>> THEN 0 ELSE Len(Head(ds).page_content) + TotalChars(Tail(ds))

DocChoices ==
    {[page_content |-> s, metadata |-> m] :
        s \in StringsOver(SmallChars, MaxDocChars), m \in MetaChoices}
    \cup {NotADocument}

\* Any sequence of documents, also the empty one.
InitDocs ==
    /\ documents \in {ds \in UNION {[1..n -> DocChoices] : n \in 0..MaxDocs} :
                        TotalChars(ds) <= MaxDocChars}
    /\ \E p \in ParameterPairs : chunk_size = p[1] /\ chunk_overlap = p[2]
    /\ SplitStart
    /\ LoadIdle
    /\ IngestIdle
    /\ WebIdle

\* Lines 159-169: the parameter check, then the shortcut for no documents.
SplitValidate ==
    /\ split_pc = "start"
    /\ split_pc' = split_entry(documents, chunk_size, chunk_overlap).pc
    /\ split_error' = split_entry(documents, chunk_size, chunk_overlap).error
    /\ UNCHANGED <<documents, chunk_size, chunk_overlap, doc_index, all_document_chunks,
                   call_number, first_result>>
    /\ UNCHANGED <<load_vars, ingest_vars, web_vars>>

\* Lines 194-221: one turn of the per-document loop, the except branch included.
ChunkDocument ==
    /\ split_pc = "loop"
    /\ doc_index < Len(documents)
    /\ LET document == documents[doc_index + 1]
       IN  IF chunking_raises(document)
           THEN /\ all_document_chunks' = chunks_after_error(all_document_chunks)
                /\ UNCHANGED documents
           ELSE LET chunks == document_chunks(document, doc_index, chunk_size,
                                              chunk_overlap)
                IN  /\ all_document_chunks' = all_document_chunks \o chunks
                    /\ documents' =
                          [documents EXCEPT ![doc_index + 1].metadata =
                              metadata_after_enhancement(document, chunks)]
    /\ doc_index' = doc_index + 1
    /\ UNCHANGED <<chunk_size, chunk_overlap, split_pc, split_error, call_number,
                   first_result>>
    /\ UNCHANGED <<load_vars, ingest_vars, web_vars>>

\* Lines 223-232: the loop is over, all_document_chunks is returned.
SplitReturn ==
    /\ split_pc = "loop"
    /\ doc_index = Len(documents)
    /\ split_pc' = "returned"
    /\ UNCHANGED <<documents, chunk_size, chunk_overlap, doc_index,
                   all_document_chunks, split_error, call_number, first_result>>
    /\ UNCHANGED <<load_vars, ingest_vars, web_vars>>

SplitNext == SplitValidate \/ ChunkDocument \/ SplitReturn

SpecText == InitText /\ [][SplitNext]_vars
SpecSplit == InitDocs /\ [][SplitNext]_vars

\* Mutant: the list the chunks are collected in outlives the call.
chunks_at_call_start_shared(previous) == previous

\* Line 191: all_document_chunks = [], a new list in every call.
chunks_at_call_start(previous) == <<>>

\* The caller calls split_documents_into_semantic_chunks again with the same
\* list of documents and the same parameters; the outcome of the first call is
\* kept for comparison.
SecondCall ==
    /\ split_pc \in {"returned", "raised"}
    /\ call_number = 1
    /\ first_result' = [pc |-> split_pc, error |-> split_error,
                        chunks |-> all_document_chunks]
    /\ call_number' = 2
    /\ split_pc' = "start"
    /\ doc_index' = 0
    /\ all_document_chunks' = chunks_at_call_start(all_document_chunks)
    /\ split_error' = "none"
    /\ UNCHANGED <<documents, chunk_size, chunk_overlap>>
    /\ UNCHANGED <<load_vars, ingest_vars, web_vars>>

TwiceNext == SplitNext \/ SecondCall

SpecTwice == InitDocs /\ [][TwiceNext]_vars

\* ------------------------------------------------ the directory loader
\* What a page of a PDF file gives: extract_text() raises (ok = FALSE) or
\* returns text.
PageChoices ==
    {[ok |-> FALSE, text |-> <<>>]} \cup
    {[ok |-> TRUE, text |-> t] : t \in {<<>>, <<" ">>, <<"a">>, <<" ", "b">>}}

\* A file of the directory the loop has not come to yet.  Once it has, kind is
\* "unopenable" (open() raised), "corrupt" (PyPDF2.PdfReader raised) or "pdf"
\* (read, len(pdf_reader.pages) = page_count); pages are the pages gone through.
Unread == [kind |-> "unread", page_count |-> 0, pages |-> <<>>]

RECURSIVE TotalPages(_)
TotalPages(fs) == IF fs = <<>> THEN 0 ELSE Head(fs).page_count + TotalPages(Tail(fs))

\* The directory holds any number of PDF files; what each file and page gives
\* shows when it is opened and read.
InitLoad ==
    /\ path_kind \in {"missing", "file", "dir"}
    /\ \E n \in 0..(IF path_kind = "dir" THEN MaxFiles ELSE 0) :
          pdf_files = [i \in 1..n |-> Unread]
    /\ load_pc = "start"
    /\ file_idx = 0
    /\ page_number = 0
    /\ document_text = <<>>
    /\ extracted_documents = <<>>
    /\ open_handles = {}
    /\ opened = <<>>
    /\ load_error = "none"
    /\ SplitIdle
    /\ IngestIdle
    /\ WebIdle

\* t.strip() is not empty.
HasText(t) == \E i \in 1..Len(t) : ~IsWhitespace(t[i])

\* Mutant: every page with any text is added (if page_text:).
page_has_text_nonempty(page_text) == page_text # <<>>

\* Line 89: only pages with text other than whitespace are added.
page_has_text(page_text) == HasText(page_text)

\* Mutant: a document is made of every file that was read.
document_has_text_always(text) == TRUE

\* Line 97: a document is made only of text other than whitespace.
document_has_text(text) == HasText(text)

\* Mutant: only the existence of the path is checked.
validate_outcome_exists_only(kind, files) ==
    IF kind = "missing" THEN [pc |-> "raised", error |-> "FileNotFoundError"]
    ELSE IF files = <<>> THEN [pc |-> "returned", error |-> "none"]
    ELSE [pc |-> "files", error |-> "none"]

\* Mutant: a directory without PDF files is reported as an error.
validate_outcome_empty_is_error(kind, files) ==
    IF kind = "missing" THEN [pc |-> "raised", error |-> "FileNotFoundError"]
    ELSE IF kind # "dir" THEN [pc |-> "raised", error |-> "ValueError"]
    ELSE IF files = <<>> THEN [pc |-> "raised", error |-> "ValueError"]
    ELSE [pc |-> "files", error |-> "none"]

\* Lines 56-69: the outcome of the path checks and of the shortcut for a
\* directory without PDF files.
validate_outcome(kind, files) ==
    IF kind = "missing" THEN [pc |-> "raised", error |-> "FileNotFoundError"]
    ELSE IF kind # "dir" THEN [pc |-> "raised", error |-> "ValueError"]
    ELSE IF files = <<>> THEN [pc |-> "returned", error |-> "none"]
    ELSE [pc |-> "files", error |-> "none"]

\* Mutant: an error in a file ends the loop (break for continue).
next_after_error_break(idx, file_count) == file_count

\* Lines 113-115: an error in a file is caught and the loop continues with the
\* file after it.
next_after_error(idx, file_count) == idx + 1

\* Mutant: the file stays open when the block is left.
with_exit_leak(handles, file_number) == handles

\* Line 80: leaving the with block, by its end or by an exception, closes the
\* file.
with_exit(handles, file_number) == handles \ {file_number}

\* The Document made of the open file (lines 98-106); the file's name is its
\* position in the enumeration.
make_document(file_number, text, page_count) ==
    [page_content |-> strip([off |-> 0, txt |-> text]).txt,
     metadata |-> [source |-> <<"Documents/", file_number>>,
                   filename |-> file_number,
                   document_type |-> "medical_pdf",
                   page_count |-> page_count]]

\* Lines 56-69: the path checks, then the shortcut for no PDF files.
LoadValidate ==
    /\ load_pc = "start"
    /\ load_pc' = validate_outcome(path_kind, pdf_files).pc
    /\ load_error' = validate_outcome(path_kind, pdf_files).error
    /\ UNCHANGED <<path_kind, pdf_files, file_idx, page_number, document_text,
                   extracted_documents, open_handles, opened>>
    /\ UNCHANGED <<split_vars, ingest_vars, web_vars>>

\* Line 80: open(pdf_file_path, 'rb'); an error is caught at line 113 and the
\* loop goes on with the next file.
OpenFile ==
    /\ load_pc = "files"
    /\ file_idx < Len(pdf_files)
    /\ \E opens \in BOOLEAN :
          IF ~opens
          THEN /\ pdf_files' = [pdf_files EXCEPT ![file_idx + 1].kind = "unopenable"]
               /\ file_idx' = next_after_error(file_idx, Len(pdf_files))
               /\ UNCHANGED <<load_pc, open_handles, opened>>
          ELSE /\ pdf_files' = [pdf_files EXCEPT ![file_idx + 1].kind = "opened"]
               /\ load_pc' = "parse"
               /\ open_handles' = open_handles \cup {file_idx + 1}
               /\ opened' = Append(opened, file_idx + 1)
               /\ UNCHANGED file_idx
    /\ UNCHANGED <<path_kind, page_number, document_text, extracted_documents, load_error>>
    /\ UNCHANGED <<split_vars, ingest_vars, web_vars>>

\* Lines 82-85: PyPDF2.PdfReader(pdf_file); an error leaves the with block, which
\* closes the file, and is caught at line 113.
ParseFile ==
    /\ load_pc = "parse"
    /\ \E parses \in BOOLEAN, n \in 0..(MaxPages - TotalPages(pdf_files)) :
          IF ~parses
          THEN /\ n = 0
               /\ pdf_files' = [pdf_files EXCEPT ![file_idx + 1].kind = "corrupt"]
               /\ open_handles' = with_exit(open_handles, file_idx + 1)
               /\ file_idx' = next_after_error(file_idx, Len(pdf_files))
               /\ load_pc' = "files"
               /\ UNCHANGED <<page_number, document_text>>
          ELSE /\ pdf_files' = [pdf_files EXCEPT ![file_idx + 1].kind = "pdf",
                                                 ![file_idx + 1].page_count = n]
               /\ load_pc' = "pages"
               /\ page_number' = 0
               /\ document_text' = <<>>
               /\ UNCHANGED <<open_handles, file_idx>>
    /\ UNCHANGED <<path_kind, extracted_documents, opened, load_error>>
    /\ UNCHANGED <<split_vars, ingest_vars, web_vars>>

\* Lines 86-94: one turn of the page loop.
ExtractPage ==
    /\ load_pc = "pages"
    /\ page_number < pdf_files[file_idx + 1].page_count
    /\ \E page \in PageChoices :
          /\ pdf_files' = [pdf_files EXCEPT ![file_idx + 1].pages = Append(@, page)]
          /\ document_text' =
                IF page.ok /\ page_has_text(page.text)
                THEN document_text \o page.text \o <<"\n", "\n">>
                ELSE document_text
    /\ page_number' = page_number + 1
    /\ UNCHANGED <<path_kind, load_pc, file_idx, extracted_documents,
                   open_handles, opened, load_error>>
    /\ UNCHANGED <<split_vars, ingest_vars, web_vars>>

\* Line 86: fetching the next page from pdf_reader.pages raises (a damaged page
\* tree).  This is outside the try of the page, so the file is given up: the with
\* block closes it and the error is caught at line 113.
PageAccessFails ==
    /\ load_pc = "pages"
    /\ page_number < pdf_files[file_idx + 1].page_count
    /\ pdf_files' = [pdf_files EXCEPT ![file_idx + 1].kind = "corrupt"]
    /\ open_handles' = with_exit(open_handles, file_idx + 1)
    /\ file_idx' = next_after_error(file_idx, Len(pdf_files))
    /\ load_pc' = "files"
    /\ UNCHANGED <<path_kind, page_number, document_text, extracted_documents,
                   opened, load_error>>
    /\ UNCHANGED <<split_vars, ingest_vars, web_vars>>

\* Lines 96-111: the page loop is over; the document is appended if it has text,
\* the with block closes the file.
FinishFile ==
    /\ load_pc = "pages"
    /\ page_number = pdf_files[file_idx + 1].page_count
    /\ extracted_documents' =
          IF document_has_text(document_text)
          THEN Append(extracted_documents,
                      make_document(file_idx + 1, document_text,
                                    pdf_files[file_idx + 1].page_count))
          ELSE extracted_documents
    /\ open_handles' = with_exit(open_handles, file_idx + 1)
    /\ file_idx' = file_idx + 1
    /\ load_pc' = "files"
    /\ UNCHANGED <<path_kind, pdf_files, page_number, document_text, opened, load_error>>
    /\ UNCHANGED <<split_vars, ingest_vars, web_vars>>

\* Lines 117-122: the file loop is over, extracted_documents is returned.
LoadReturn ==
    /\ load_pc = "files"
    /\ file_idx = Len(pdf_files)
    /\ load_pc' = "returned"
    /\ UNCHANGED <<path_kind, pdf_files, file_idx, page_number, document_text,
                   extracted_documents, open_handles, opened, load_error>>
    /\ UNCHANGED <<split_vars, ingest_vars, web_vars>>

LoadNext ==
    \/ LoadValidate
    \/ OpenFile
    \/ ParseFile
    \/ ExtractPage
    \/ PageAccessFails
    \/ FinishFile
    \/ LoadReturn

SpecLoad == InitLoad /\ [][LoadNext]_vars

\* ------------------------------------------- the embedding model, ingestion
\* The defaults of split_documents_into_semantic_chunks, which text_split uses.
DefaultChunkSize == 500
DefaultChunkOverlap == 50

\* store_index.py starts in some directory: Documents/ is missing, a file or a
\* directory of PDF files.
InitIngest ==
    /\ path_kind \in {"missing", "file", "dir"}
    /\ \E n \in 0..(IF path_kind = "dir" THEN MaxFiles ELSE 0) :
          pdf_files = [i \in 1..n |-> Unread]
    /\ load_pc = "idle"
    /\ file_idx = 0
    /\ page_number = 0
    /\ document_text = <<>>
    /\ extracted_documents = <<>>
    /\ open_handles = {}
    /\ opened = <<>>
    /\ load_error = "none"
    /\ SplitIdle
    /\ ingest_pc = "start"
    /\ embed_pc = "idle"
    /\ medical_embeddings = "unset"
    /\ self_test = "not_run"
    /\ embeddings = "unset"
    /\ index_created = FALSE
    /\ docsearch = "unset"
    /\ WebIdle

\* store_index.py line 12: load_pdf_file(data='Documents/') is called.
IngestLoad ==
    /\ ingest_pc = "start"
    /\ ingest_pc' = "load"
    /\ load_pc' = "start"
    /\ UNCHANGED <<path_kind, pdf_files, file_idx, page_number, document_text,
                   extracted_documents, open_handles, opened, load_error>>
    /\ UNCHANGED <<embed_pc, medical_embeddings, self_test, embeddings, index_created,
                   docsearch>>
    /\ UNCHANGED <<split_vars, web_vars>>

\* store_index.py line 12: the loader raised; the script ends with the error.
IngestLoadRaised ==
    /\ ingest_pc = "load"
    /\ load_pc = "raised"
    /\ ingest_pc' = "raised"
    /\ UNCHANGED <<embed_pc, medical_embeddings, self_test, embeddings, index_created,
                   docsearch>>
    /\ UNCHANGED <<split_vars, load_vars, web_vars>>

\* store_index.py line 13: text_split(extracted_data) is called, with the default
\* chunk_size and chunk_overlap.
IngestSplit ==
    /\ ingest_pc = "load"
    /\ load_pc = "returned"
    /\ ingest_pc' = "split"
    /\ documents' = extracted_documents
    /\ chunk_size' = DefaultChunkSize
    /\ chunk_overlap' = DefaultChunkOverlap
    /\ split_pc' = "start"
    /\ UNCHANGED <<doc_index, all_document_chunks, split_error, call_number, first_result>>
    /\ UNCHANGED <<embed_pc, medical_embeddings, self_test, embeddings, index_created,
                   docsearch>>
    /\ UNCHANGED <<load_vars, web_vars>>

\* store_index.py line 14: hugging_face_embedding_model() is called once the
\* chunks are there.
IngestEmbed ==
    /\ ingest_pc = "split"
    /\ split_pc = "returned"
    /\ ingest_pc' = "embed"
    /\ embed_pc' = "construct"
    /\ UNCHANGED <<medical_embeddings, self_test, embeddings, index_created, docsearch>>
    /\ UNCHANGED <<split_vars, load_vars, web_vars>>

\* helper.py lines 264-278: HuggingFaceEmbeddings(**model_configuration); an
\* error is caught at line 295 and None is returned.
ConstructModel ==
    /\ embed_pc = "construct"
    /\ \E constructed \in BOOLEAN :
          IF constructed
          THEN /\ medical_embeddings' = "model"
               /\ embed_pc' = "test"
               /\ UNCHANGED embeddings
          ELSE /\ embeddings' = "None"
               /\ embed_pc' = "returned"
               /\ UNCHANGED medical_embeddings
    /\ UNCHANGED <<ingest_pc, self_test, index_created, docsearch>>
    /\ UNCHANGED <<split_vars, load_vars, web_vars>>

\* Mutant: the model is returned whatever the self-test gave.
result_after_test_always(model, test_passed) == model

\* Lines 282-293: the model is returned after a self-test that passed, None
\* after one that raised.
result_after_test(model, test_passed) == IF test_passed THEN model ELSE "None"

\* Lines 281-293: embed_query(test_query) on the new model, then the return.
SelfTest ==
    /\ embed_pc = "test"
    /\ \E test_passed \in BOOLEAN :
          /\ self_test' = IF test_passed THEN "passed" ELSE "failed"
          /\ embeddings' = result_after_test(medical_embeddings, test_passed)
    /\ embed_pc' = "returned"
    /\ UNCHANGED <<ingest_pc, medical_embeddings, index_created, docsearch>>
    /\ UNCHANGED <<split_vars, load_vars, web_vars>>

\* store_index.py lines 16-29: the Pinecone client is made and create_index is
\* called, whatever hugging_face_embedding_model() returned.
IngestCreateIndex ==
    /\ ingest_pc = "embed"
    /\ embed_pc = "returned"
    /\ ingest_pc' = "create_index"
    /\ UNCHANGED <<embed_pc, medical_embeddings, self_test, embeddings, index_created,
                   docsearch>>
    /\ UNCHANGED <<split_vars, load_vars, web_vars>>

\* store_index.py lines 20-29: pc.create_index(...) creates the index or raises
\* (no API key, the index exists already).
CreateIndex ==
    /\ ingest_pc = "create_index"
    /\ \E created \in BOOLEAN :
          /\ index_created' = created
          /\ ingest_pc' = IF created THEN "store" ELSE "raised"
    /\ UNCHANGED <<embed_pc, medical_embeddings, self_test, embeddings, docsearch>>
    /\ UNCHANGED <<split_vars, load_vars, web_vars>>

\* store_index.py line 31: PineconeVectorStore.from_documents(text_chunks, ...,
\* embedding=embeddings) returns the store or raises.  The script passes
\* whatever hugging_face_embedding_model() returned, None included; what the
\* library does with None is not in this repository, so both outcomes are kept.
StoreChunks ==
    /\ ingest_pc = "store"
    /\ \E stored \in BOOLEAN :
          /\ docsearch' = IF stored THEN "store" ELSE "unset"
          /\ ingest_pc' = IF stored THEN "done" ELSE "raised"
    /\ UNCHANGED <<embed_pc, medical_embeddings, self_test, embeddings, index_created>>
    /\ UNCHANGED <<split_vars, load_vars, web_vars>>

IngestNext ==
    \/ IngestLoad
    \/ LoadNext
    \/ IngestLoadRaised
    \/ IngestSplit
    \/ SplitNext
    \/ IngestEmbed
    \/ ConstructModel
    \/ SelfTest
    \/ IngestCreateIndex
    \/ CreateIndex
    \/ StoreChunks

SpecIngest == InitIngest /\ [][IngestNext]_vars

\* ---------------------------------------------------- the chatbot servers
MaxRequests == 2          \* most requests a server is given
MaxQuestionLength == 1000 \* the longest question that is answered

LongText(n) == [i \in 1..n |-> "a"]

\* The msg field of POST /get: empty, whitespace, short, and around the limit.
QuestionChoices ==
    {<<>>, <<" ">>, <<"a">>, <<" ", "a", " ">>,
     LongText(MaxQuestionLength),
     <<" ">> \o LongText(MaxQuestionLength) \o <<" ">>,
     LongText(MaxQuestionLength + 1)}

\* What the answer generator does when it is invoked: medical_rag_chain.invoke
\* raises, returns a mapping without "answer", or returns an answer.
GeneratorOutcomes ==
    {[kind |-> "raises", exc |-> e, answer |-> <<>>] :
        e \in {"KeyError", "TimeoutError", "Exception"}}
    \cup {[kind |-> "no_answer", exc |-> "none", answer |-> <<>>]}
    \cup {[kind |-> "answer", exc |-> "none", answer |-> a] :
            a \in {<<"a">>, <<" ", "a", "\n">>}}

medical_disclaimer == <<"\n", "\n", "Important: ... consult with a qualified healthcare professional">>

\* A response without a call of the answer generator.
Reply(status, body) ==
    [status |-> status, body |-> body, invoked |-> FALSE, question |-> <<>>]

\* A response after the answer generator was called with question.
ReplyAfter(status, body, question) ==
    [status |-> status, body |-> body, invoked |-> TRUE, question |-> question]

\* app.py lines 413-423: what the except clauses of process_medical_query make
\* of an exception raised in its try block.  abort(400) raises BadRequest, which
\* is neither KeyError nor TimeoutError and is caught by 'except Exception'.
except_clauses(exc) ==
    IF exc = "KeyError" THEN [status |-> 400, body |-> <<"Bad Request">>]
    ELSE IF exc = "TimeoutError"
    THEN [status |-> 200, body |-> <<"The medical AI system is experiencing high load.">>]
    ELSE [status |-> 200, body |-> <<"I apologize, but I encountered an error">>]

\* Mutant: a question one character over the limit is let through.
question_too_long_lenient(question) == Len(question) > MaxQuestionLength + 1

\* app.py line 380, simple_app.py line 123.
question_too_long(question) == Len(question) > MaxQuestionLength

\* app.py lines 386-388: the availability check of /get.
system_unavailable(rag_chain, retriever, language_model) ==
    rag_chain = "None" \/ retriever = "None" \/ language_model = "None"

\* app.py lines 446-451: ready_for_queries of /health.
ready_for_queries(embeddings_model, retriever, language_model, rag_chain) ==
    /\ embeddings_model # "None"
    /\ retriever # "None"
    /\ language_model # "None"
    /\ rag_chain # "None"

\* app.py process_medical_query (lines 363-423).
process_medical_query(req, rag_chain, retriever, language_model, outcome) ==
    IF ~req.has_msg
    THEN Reply(except_clauses("BadRequest").status, except_clauses("BadRequest").body)
    ELSE LET user_medical_question == strip([off |-> 0, txt |-> req.msg]).txt
         IN  IF user_medical_question = <<>>
             THEN Reply(200, <<"Please provide a medical question">>)
             ELSE IF question_too_long(user_medical_question)
             THEN Reply(200, <<"Please keep your medical question under 1000 characters">>)
             ELSE IF system_unavailable(rag_chain, retriever, language_model)
             THEN Reply(200, <<"Sorry, the medical AI assistant is currently unavailable.">>)
             ELSE IF outcome.kind = "raises"
             THEN ReplyAfter(except_clauses(outcome.exc).status,
                             except_clauses(outcome.exc).body, user_medical_question)
             ELSE IF outcome.kind = "no_answer"
             THEN ReplyAfter(200, <<"I apologize, but I encountered an issue">>,
                             user_medical_question)
             ELSE ReplyAfter(200,
                             strip([off |-> 0, txt |-> outcome.answer]).txt
                                \o medical_disclaimer,
                             user_medical_question)

\* simple_app.py process_medical_query (lines 106-140); get_medical_response
\* catches its own errors and always returns a text.
simple_process_medical_query(req, answer) ==
    IF ~req.has_msg THEN Reply(400, <<"Missing medical question">>)
    ELSE LET user_medical_question == strip([off |-> 0, txt |-> req.msg]).txt
         IN  IF user_medical_question = <<>>
             THEN Reply(200, <<"Please provide a medical question">>)
             ELSE IF question_too_long(user_medical_question)
             THEN Reply(200, <<"Please keep your medical question under 1000 characters">>)
             ELSE ReplyAfter(200, answer \o medical_disclaimer, user_medical_question)

\* One of the two chatbot scripts is started.
InitChat ==
    /\ chat_app \in {"app", "simple_app"}
    /\ chat_pc = "start"
    /\ medical_embeddings_model = "None"
    /\ medical_document_retriever = "None"
    /\ medical_language_model = "None"
    /\ medical_rag_chain = "None"
    /\ initialized = "unset"
    /\ chat_request = NoRequest
    /\ chat_response = NoResponse
    /\ chat_handled = 0
    /\ chat_in_flight = <<>>
    /\ ToolIdle
    /\ SplitIdle
    /\ LoadIdle
    /\ IngestIdle

\* app.py lines 276-283: load_environment_configuration(), which raises when a
\* key is missing (caught at line 315), then initialize_medical_embeddings().
ChatLoadEnvironment ==
    /\ chat_app = "app"
    /\ chat_pc = "start"
    /\ \E keys_present \in BOOLEAN :
          IF keys_present
          THEN /\ chat_pc' = "embeddings"
               /\ embed_pc' = "construct"
               /\ UNCHANGED initialized
          ELSE /\ chat_pc' = "initialized"
               /\ initialized' = "False"
               /\ UNCHANGED embed_pc
    /\ UNCHANGED <<chat_app, medical_embeddings_model, medical_document_retriever,
                   medical_language_model, medical_rag_chain, chat_request,
                   chat_response, chat_handled,
                   chat_in_flight>>
    /\ UNCHANGED <<ingest_pc, medical_embeddings, self_test, embeddings, index_created,
                   docsearch>>
    /\ UNCHANGED <<split_vars, load_vars, tool_vars>>

\* app.py lines 283-286: the embeddings model is stored; without it the
\* initialization returns False.
ChatEmbeddingsReturned ==
    /\ chat_pc = "embeddings"
    /\ embed_pc = "returned"
    /\ medical_embeddings_model' = embeddings
    /\ IF embeddings = "None"
       THEN chat_pc' = "initialized" /\ initialized' = "False"
       ELSE chat_pc' = "retriever" /\ UNCHANGED initialized
    /\ UNCHANGED <<chat_app, medical_document_retriever, medical_language_model,
                   medical_rag_chain, chat_request, chat_response, chat_handled,
                   chat_in_flight>>
    /\ UNCHANGED <<split_vars, load_vars, ingest_vars, tool_vars>>

\* app.py lines 289-294 (setup_medical_vector_retriever, lines 148-171).
ChatSetupRetriever ==
    /\ chat_pc = "retriever"
    /\ \E connected \in BOOLEAN :
          IF connected
          THEN /\ medical_document_retriever' = "retriever"
               /\ chat_pc' = "llm"
               /\ UNCHANGED initialized
          ELSE /\ medical_document_retriever' = "None"
               /\ chat_pc' = "initialized"
               /\ initialized' = "False"
    /\ UNCHANGED <<chat_app, medical_embeddings_model, medical_language_model,
                   medical_rag_chain, chat_request, chat_response, chat_handled,
                   chat_in_flight>>
    /\ UNCHANGED <<split_vars, load_vars, ingest_vars, tool_vars>>

\* app.py lines 297-300 (initialize_medical_language_model, lines 190-207).
ChatInitLanguageModel ==
    /\ chat_pc = "llm"
    /\ \E constructed \in BOOLEAN :
          IF constructed
          THEN /\ medical_language_model' = "ChatGroq"
               /\ chat_pc' = "chain"
               /\ UNCHANGED initialized
          ELSE /\ medical_language_model' = "None"
               /\ chat_pc' = "initialized"
               /\ initialized' = "False"
    /\ UNCHANGED <<chat_app, medical_embeddings_model, medical_document_retriever,
                   medical_rag_chain, chat_request, chat_response, chat_handled,
                   chat_in_flight>>
    /\ UNCHANGED <<split_vars, load_vars, ingest_vars, tool_vars>>

\* app.py lines 303-313 (create_medical_rag_chain, lines 228-256).
ChatCreateChain ==
    /\ chat_pc = "chain"
    /\ \E created \in BOOLEAN :
          /\ medical_rag_chain' = IF created THEN "rag_chain" ELSE "None"
          /\ initialized' = IF created THEN "True" ELSE "False"
    /\ chat_pc' = "initialized"
    /\ UNCHANGED <<chat_app, medical_embeddings_model, medical_document_retriever,
                   medical_language_model, chat_request, chat_response, chat_handled,
                   chat_in_flight>>
    /\ UNCHANGED <<split_vars, load_vars, ingest_vars, tool_vars>>

\* Mutant: the server is started whatever the initialization returned.
server_starts_anyway(result) == TRUE

\* app.py lines 474-477: SystemExit(1) unless the initialization returned True.
server_starts(result) == result = "True"

\* app.py lines 474-498: run_medical_chatbot_server exits after a failed
\* initialization; else it calls app.run, which serves, or raises at once
\* (the address is in use) and the script exits with SystemExit(1).
ChatStartServer ==
    /\ chat_app = "app"
    /\ chat_pc = "initialized"
    /\ \E bound \in BOOLEAN :
          chat_pc' = IF server_starts(initialized) /\ bound THEN "serving" ELSE "exited"
    /\ UNCHANGED <<chat_app, medical_embeddings_model, medical_document_retriever,
                   medical_language_model, medical_rag_chain, initialized,
                   chat_request, chat_response, chat_handled,
                   chat_in_flight>>
    /\ UNCHANGED <<split_vars, load_vars, ingest_vars, tool_vars>>

\* simple_app.py lines 165-187: the server is started at once; app.run serves,
\* or raises at once and the script exits with SystemExit(1).
SimpleStartServer ==
    /\ chat_app = "simple_app"
    /\ chat_pc = "start"
    /\ \E bound \in BOOLEAN : chat_pc' = IF bound THEN "serving" ELSE "exited"
    /\ UNCHANGED <<chat_app, medical_embeddings_model, medical_document_retriever,
                   medical_language_model, medical_rag_chain, initialized,
                   chat_request, chat_response, chat_handled,
                   chat_in_flight>>
    /\ UNCHANGED <<split_vars, load_vars, ingest_vars, tool_vars>>

\* app.py lines 487-498 and simple_app.py lines 177-187: app.run ends while
\* the server serves.  An exception ends the script with SystemExit(1),
\* KeyboardInterrupt lets run_medical_chatbot_server return; in both cases the
\* process ends, with the requests in flight unanswered.
ServerStops ==
    /\ chat_pc = "serving"
    /\ chat_pc' = "exited"
    /\ UNCHANGED <<chat_app, medical_embeddings_model, medical_document_retriever,
                   medical_language_model, medical_rag_chain, initialized,
                   chat_request, chat_response, chat_handled, chat_in_flight>>
    /\ UNCHANGED <<split_vars, load_vars, ingest_vars, tool_vars>>

\* app.py lines 368-395: the request comes as far as medical_rag_chain.invoke
\* (it has a usable question and the components are there), where its thread
\* waits for the retrieval and the language model.
waits_in_invoke(req, rag_chain, retriever, language_model) ==
    process_medical_query(req, rag_chain, retriever, language_model, NoOutcome).invoked

\* chat_in_flight without its i-th request.
without(in_flight, i) ==
    [k \in 1..(Len(in_flight) - 1) |-> IF k < i THEN in_flight[k] ELSE in_flight[k + 1]]

\* POST /get of app.py with or without a msg field (app.run(threaded=True): one
\* thread per request).  A request that does not come to the call of the RAG
\* chain is answered at once; the others wait in chat_in_flight.
HandleGet ==
    /\ chat_app = "app"
    /\ chat_pc = "serving"
    /\ chat_handled < MaxRequests
    /\ \E has_msg \in BOOLEAN, msg \in QuestionChoices :
          /\ has_msg \/ msg = <<>>
          /\ LET req == [route |-> "/get", has_msg |-> has_msg, msg |-> msg,
                         outcome |-> NoOutcome]
             IN  IF waits_in_invoke(req, medical_rag_chain, medical_document_retriever,
                                    medical_language_model)
                 THEN /\ chat_in_flight' = Append(chat_in_flight, req)
                      /\ UNCHANGED <<chat_request, chat_response>>
                 ELSE /\ chat_request' = req
                      /\ chat_response' =
                            process_medical_query(req, medical_rag_chain,
                                                  medical_document_retriever,
                                                  medical_language_model, NoOutcome)
                      /\ UNCHANGED chat_in_flight
    /\ chat_handled' = chat_handled + 1
    /\ UNCHANGED <<chat_app, chat_pc, medical_embeddings_model,
                   medical_document_retriever, medical_language_model,
                   medical_rag_chain, initialized>>
    /\ UNCHANGED <<split_vars, load_vars, ingest_vars, tool_vars>>

\* app.py lines 395-423: medical_rag_chain.invoke returns or raises in one of
\* the waiting threads, and the request is answered.
InvokeReturns ==
    /\ chat_app = "app"
    /\ chat_pc = "serving"
    /\ \E i \in 1..Len(chat_in_flight), outcome \in GeneratorOutcomes :
          /\ chat_request' = [chat_in_flight[i] EXCEPT !.outcome = outcome]
          /\ chat_response' =
                process_medical_query(chat_in_flight[i], medical_rag_chain,
                                      medical_document_retriever,
                                      medical_language_model, outcome)
          /\ chat_in_flight' = without(chat_in_flight, i)
    /\ UNCHANGED <<chat_app, chat_pc, medical_embeddings_model,
                   medical_document_retriever, medical_language_model,
                   medical_rag_chain, initialized, chat_handled>>
    /\ UNCHANGED <<split_vars, load_vars, ingest_vars, tool_vars>>

\* POST /get of simple_app.py with or without a msg field.  get_medical_response
\* looks the answer up in the module's dictionary: there is nothing to wait for.
SimpleHandleGet ==
    /\ chat_app = "simple_app"
    /\ chat_pc = "serving"
    /\ chat_handled < MaxRequests
    /\ \E has_msg \in BOOLEAN, msg \in QuestionChoices,
          answer \in {<<"Regarding diabetes symptoms: ...">>, <<"I understand ...">>} :
          /\ has_msg \/ msg = <<>>
          /\ chat_request' = [route |-> "/get", has_msg |-> has_msg, msg |-> msg,
                               outcome |-> [kind |-> "answer", exc |-> "none",
                                            answer |-> answer]]
          /\ chat_response' = simple_process_medical_query(chat_request', answer)
    /\ chat_handled' = chat_handled + 1
    /\ UNCHANGED <<chat_app, chat_pc, medical_embeddings_model,
                   medical_document_retriever, medical_language_model,
                   medical_rag_chain, initialized, chat_in_flight>>
    /\ UNCHANGED <<split_vars, load_vars, ingest_vars, tool_vars>>

\* GET /health of app.py (lines 437-454).
HandleHealth ==
    /\ chat_app = "app"
    /\ chat_pc = "serving"
    /\ chat_handled < MaxRequests
    /\ chat_request' = [route |-> "/health", has_msg |-> FALSE, msg |-> <<>>,
                         outcome |-> NoOutcome]
    /\ chat_response' =
          Reply(200,
                IF ready_for_queries(medical_embeddings_model, medical_document_retriever,
                                     medical_language_model, medical_rag_chain)
                THEN <<"healthy", "ready_for_queries: true">>
                ELSE <<"healthy", "ready_for_queries: false">>)
    /\ chat_handled' = chat_handled + 1
    /\ UNCHANGED <<chat_app, chat_pc, medical_embeddings_model,
                   medical_document_retriever, medical_language_model,
                   medical_rag_chain, initialized, chat_in_flight>>
    /\ UNCHANGED <<split_vars, load_vars, ingest_vars, tool_vars>>

ChatNext ==
    \/ ChatLoadEnvironment
    \/ ConstructModel
    \/ SelfTest
    \/ ChatEmbeddingsReturned
    \/ ChatSetupRetriever
    \/ ChatInitLanguageModel
    \/ ChatCreateChain
    \/ ChatStartServer
    \/ SimpleStartServer
    \/ ServerStops
    \/ HandleGet
    \/ InvokeReturns
    \/ SimpleHandleGet
    \/ HandleHealth

SpecChat == InitChat /\ [][ChatNext]_vars

\* ------------------------------------------------ the transcription tool
\* main.py line 54.
allowed_extensions == {".mp3", ".wav", ".m4a", ".ogg", ".flac", ".mp4", ".webm"}

\* Path(file.filename).suffix of the uploads tried: allowed, allowed in upper
\* case, not allowed, none.
ExtensionChoices == {".mp3", ".MP3", ".wav", ".txt", ""}

\* str.lower() on the suffixes of ExtensionChoices.
lower(ext) == IF ext = ".MP3" THEN ".mp3" ELSE ext

\* What whisper makes of an upload, stripped (transcription.py line 54): no
\* text or some text.
WhisperTexts == {<<>>, <<"a">>}

\* The transcript field of POST /api/cleanup.
TranscriptChoices == {<<>>, <<" ">>, <<" ", "\n">>, <<"a">>, <<" ", "a">>}

\* A request as it arrives; endpoint "both" is /api/transcribe-and-cleanup.  For
\* /api/cleanup transcript is the field of the body, for "both" the text the
\* transcription gave.  status 0: not answered yet.  handle: the model
\* get_model returned to it (0: none); loaded: the number of the load it made
\* that succeeded (0: none).
NewRequest(endpoint, ext, transcript) ==
    [endpoint |-> endpoint, ext |-> ext, transcript |-> transcript, pc |-> "arrived",
     status |-> 0, created_temp |-> FALSE, model_called |-> FALSE,
     llm_called |-> FALSE, handle |-> 0, loaded |-> 0]

\* The server of the transcription tool is up, nothing was requested yet and
\* no model is cached (transcription.py line 12; 0 stands for None).
InitTool ==
    /\ tool_requests = <<>>
    /\ running = 0
    /\ _model = 0
    /\ load_count = 0
    /\ temp_files = {}
    /\ ChatIdle
    /\ SplitIdle
    /\ LoadIdle
    /\ IngestIdle

\* Mutant: the handler can be interleaved with others at every step (as if it
\* ran in a thread of its own).
yields_at_any(pc) == TRUE

\* The handlers are coroutines on one event loop: another request runs only
\* when the running one awaits (main.py line 65, await file.read()) or is done.
yields_at(pc) == pc \in {"reading", "done"}

\* The event loop after request r has come to pc.
loop_after(r, pc) == IF yields_at(pc) THEN 0 ELSE r

\* Request r can take its next step: it runs, or the loop is free.
CanRun(r) == running = r \/ running = 0

\* main.py line 88 and line 114: 'except Exception' catches whatever the try
\* block raised, the HTTPException of the handler itself included, and raises
\* HTTPException(500).
handler_except(raised_status) == 500

\* A client posts to /api/transcribe, /api/transcribe-and-cleanup or
\* /api/cleanup.
Arrive ==
    /\ Len(tool_requests) < MaxRequests
    /\ \/ \E ext \in ExtensionChoices, endpoint \in {"transcribe", "both"} :
             tool_requests' = Append(tool_requests, NewRequest(endpoint, ext, <<>>))
       \/ \E transcript \in TranscriptChoices :
             tool_requests' = Append(tool_requests, NewRequest("cleanup", "", transcript))
    /\ UNCHANGED <<running, _model, load_count, temp_files>>
    /\ UNCHANGED <<split_vars, load_vars, ingest_vars, chat_vars>>

\* main.py lines 50-65: the extension check, then the temporary file is created
\* and the handler awaits the upload.  transcribe_and_cleanup (line 122) runs
\* the same coroutine and passes its HTTPException on (lines 133-134).
TranscribeStart ==
    \E r \in 1..Len(tool_requests) :
        /\ tool_requests[r].endpoint \in {"transcribe", "both"}
        /\ tool_requests[r].pc = "arrived"
        /\ CanRun(r)
        /\ IF lower(tool_requests[r].ext) \notin allowed_extensions
           THEN /\ tool_requests' = [tool_requests EXCEPT ![r].pc = "done",
                                                          ![r].status = handler_except(400)]
                /\ running' = loop_after(r, "done")
                /\ UNCHANGED temp_files
           ELSE /\ tool_requests' = [tool_requests EXCEPT ![r].pc = "reading",
                                                          ![r].created_temp = TRUE]
                /\ running' = loop_after(r, "reading")
                /\ temp_files' = temp_files \cup {r}
        /\ UNCHANGED <<_model, load_count>>
        /\ UNCHANGED <<split_vars, load_vars, ingest_vars, chat_vars>>

\* main.py lines 65-67: file.read() and temp_file.write(content).  When one of
\* them raises, the with block closes the file (delete=False keeps it) and the
\* error goes to line 86; the try of lines 69-84 is never entered.
TranscribeSave ==
    \E r \in 1..Len(tool_requests) :
        /\ tool_requests[r].pc = "reading"
        /\ CanRun(r)
        /\ \E saved \in BOOLEAN :
              IF saved
              THEN /\ tool_requests' = [tool_requests EXCEPT ![r].pc = "get_model"]
                   /\ running' = loop_after(r, "get_model")
              ELSE /\ tool_requests' = [tool_requests EXCEPT ![r].pc = "done",
                                                             ![r].status = handler_except(0)]
                   /\ running' = loop_after(r, "done")
        /\ UNCHANGED <<_model, load_count, temp_files>>
        /\ UNCHANGED <<split_vars, load_vars, ingest_vars, chat_vars>>

\* transcription.py lines 19-20: get_model tests the cache.
GetModelCheck ==
    \E r \in 1..Len(tool_requests) :
        /\ tool_requests[r].pc = "get_model"
        /\ CanRun(r)
        /\ LET next == IF _model = 0 THEN "loading" ELSE "return_model"
           IN  /\ tool_requests' = [tool_requests EXCEPT ![r].pc = next]
               /\ running' = loop_after(r, next)
        /\ UNCHANGED <<_model, load_count, temp_files>>
        /\ UNCHANGED <<split_vars, load_vars, ingest_vars, chat_vars>>

\* transcription.py line 22: whisper.load_model.  A load that raises leaves
\* _model as it is; the error goes through transcribe_audio (lines 56-58) to
\* the finally of main.py (lines 81-84), which deletes the file, and to line 86.
GetModelLoad ==
    \E r \in 1..Len(tool_requests) :
        /\ tool_requests[r].pc = "loading"
        /\ CanRun(r)
        /\ load_count' = load_count + 1
        /\ \E loaded \in BOOLEAN :
              IF loaded
              THEN /\ _model' = load_count + 1
                   /\ tool_requests' = [tool_requests EXCEPT ![r].pc = "return_model",
                                                          ![r].loaded = load_count + 1]
                   /\ running' = loop_after(r, "return_model")
                   /\ UNCHANGED temp_files
              ELSE /\ tool_requests' = [tool_requests EXCEPT ![r].pc = "done",
                                                          ![r].status = handler_except(0)]
                   /\ running' = loop_after(r, "done")
                   /\ temp_files' = temp_files \ {r}
                   /\ UNCHANGED _model
        /\ UNCHANGED <<split_vars, load_vars, ingest_vars, chat_vars>>

\* transcription.py line 24: return _model.
GetModelReturn ==
    \E r \in 1..Len(tool_requests) :
        /\ tool_requests[r].pc = "return_model"
        /\ CanRun(r)
        /\ tool_requests' = [tool_requests EXCEPT ![r].pc = "transcribing",
                                                  ![r].handle = _model]
        /\ running' = loop_after(r, "transcribing")
        /\ UNCHANGED <<_model, load_count, temp_files>>
        /\ UNCHANGED <<split_vars, load_vars, ingest_vars, chat_vars>>

\* transcription.py lines 49-54 and main.py lines 72-84: model.transcribe gives
\* the text or raises; either way the finally deletes the temporary file.
\* /api/transcribe answers with the text; transcribe_and_cleanup goes on with it
\* (main.py lines 124-128).
TranscribeFinish ==
    \E r \in 1..Len(tool_requests) :
        /\ tool_requests[r].pc = "transcribing"
        /\ CanRun(r)
        /\ \/ /\ tool_requests' =
                    [tool_requests EXCEPT ![r].pc = "done",
                                          ![r].model_called = TRUE,
                                          ![r].status = handler_except(0)]
              /\ running' = loop_after(r, "done")
           \/ /\ tool_requests[r].endpoint = "transcribe"
              /\ tool_requests' =
                    [tool_requests EXCEPT ![r].pc = "done",
                                          ![r].model_called = TRUE,
                                          ![r].status = 200]
              /\ running' = loop_after(r, "done")
           \/ /\ tool_requests[r].endpoint = "both"
              /\ \E text \in WhisperTexts :
                    tool_requests' =
                       [tool_requests EXCEPT ![r].pc = "cleanup",
                                             ![r].model_called = TRUE,
                                             ![r].transcript = text]
              /\ running' = loop_after(r, "cleanup")
        /\ temp_files' = temp_files \ {r}
        /\ UNCHANGED <<_model, load_count>>
        /\ UNCHANGED <<split_vars, load_vars, ingest_vars, chat_vars>>

\* main.py lines 91-114 with models.py line 14: a transcript of length 0 fails
\* the validation of CleanupRequest (422) before the handler runs; a transcript
\* of whitespace raises HTTPException(400) inside the try; any other is given to
\* cleanup_transcript, which returns the text or raises.
Cleanup ==
    \E r \in 1..Len(tool_requests) :
        /\ tool_requests[r].endpoint = "cleanup"
        /\ tool_requests[r].pc = "arrived"
        /\ CanRun(r)
        /\ IF Len(tool_requests[r].transcript) < 1
           THEN tool_requests' = [tool_requests EXCEPT ![r].pc = "done", ![r].status = 422]
           ELSE IF ~HasText(tool_requests[r].transcript)
           THEN tool_requests' = [tool_requests EXCEPT ![r].pc = "done",
                                                       ![r].status = handler_except(400)]
           ELSE \E cleaned \in BOOLEAN :
                   tool_requests' =
                      [tool_requests EXCEPT ![r].pc = "done",
                                            ![r].llm_called = TRUE,
                                            ![r].status = IF cleaned THEN 200
                                                          ELSE handler_except(0)]
        /\ running' = loop_after(r, "done")
        /\ UNCHANGED <<_model, load_count, temp_files>>
        /\ UNCHANGED <<split_vars, load_vars, ingest_vars, chat_vars>>

\* main.py lines 127-138: transcribe_and_cleanup builds the CleanupRequest, whose
\* validation (models.py line 14) raises inside the handler for a text of
\* length 0 and is caught at line 135, and awaits cleanup, whose HTTPException
\* it passes on.  Nothing is awaited that gives the event loop away.
CleanupAfterTranscribe ==
    \E r \in 1..Len(tool_requests) :
        /\ tool_requests[r].endpoint = "both"
        /\ tool_requests[r].pc = "cleanup"
        /\ CanRun(r)
        /\ IF Len(tool_requests[r].transcript) < 1
           THEN tool_requests' = [tool_requests EXCEPT ![r].pc = "done",
                                                       ![r].status = handler_except(0)]
           ELSE IF ~HasText(tool_requests[r].transcript)
           THEN tool_requests' = [tool_requests EXCEPT ![r].pc = "done",
                                                       ![r].status = handler_except(400)]
           ELSE \E cleaned \in BOOLEAN :
                   tool_requests' =
                      [tool_requests EXCEPT ![r].pc = "done",
                                            ![r].llm_called = TRUE,
                                            ![r].status = IF cleaned THEN 200
                                                          ELSE handler_except(0)]
        /\ running' = loop_after(r, "done")
        /\ UNCHANGED <<_model, load_count, temp_files>>
        /\ UNCHANGED <<split_vars, load_vars, ingest_vars, chat_vars>>

ToolNext ==
    \/ Arrive
    \/ TranscribeStart
    \/ TranscribeSave
    \/ GetModelCheck
    \/ GetModelLoad
    \/ GetModelReturn
    \/ TranscribeFinish
    \/ Cleanup
    \/ CleanupAfterTranscribe

SpecTool == InitTool /\ [][ToolNext]_vars

\* ================================================================ claims
ValidParameters == chunk_size > 0 /\ chunk_overlap >= 0 /\ chunk_overlap < chunk_size

SplitFinished == split_pc \in {"returned", "raised"}

\* The chunks of document number d (0-based), in output order.
ChunksOf(d) == SelectSeq(all_document_chunks, LAMBDA c : c.parent = d)

NonWhitespace(t) == \E i \in 1..Len(t) : t[i] \notin {" ", "\n"}

\* C1: with valid parameters every chunk returned has content of length at most
\* chunk_size.
C1_ChunkLengthBounded ==
    ValidParameters =>
        \A i \in 1..Len(all_document_chunks) :
            Len(all_document_chunks[i].page_content) <= chunk_size

\* A document longer than chunk_size was cut into several chunks, one of them
\* exactly chunk_size long.
C1_Witness ==
    /\ split_pc = "returned"
    /\ chunk_size >= 2
    /\ Len(documents[1].page_content) > chunk_size
    /\ Len(all_document_chunks) >= 2
    /\ \E i \in 1..Len(all_document_chunks) :
          Len(all_document_chunks[i].page_content) = chunk_size

\* C2: chunk_size <= 0, chunk_overlap < 0 or chunk_overlap >= chunk_size raises
\* ValueError before the empty-input shortcut and before any document is split:
\* the call never returns and holds no chunk.
C2_InvalidParametersRaiseFirst ==
    ((chunk_size <= 0 \/ chunk_overlap < 0 \/ chunk_overlap >= chunk_size)
        /\ split_pc # "start")
    => /\ split_pc = "raised"
       /\ split_error = "ValueError"
       /\ doc_index = 0
       /\ all_document_chunks = <<>>

\* The boundary chunk_overlap = chunk_size raised although there was no document.
C2_Witness ==
    /\ split_pc = "raised"
    /\ split_error = "ValueError"
    /\ chunk_size > 0
    /\ chunk_overlap = chunk_size
    /\ documents = <<>>

\* C3 as stated: with valid parameters the call is accepted and every chunk
\* starts strictly after the start of the chunk before it (same document).
C3_Original ==
    ValidParameters =>
        /\ split_pc # "raised"
        /\ \A i \in 2..Len(all_document_chunks) :
              all_document_chunks[i].parent = all_document_chunks[i - 1].parent
              => all_document_chunks[i].start > all_document_chunks[i - 1].start

\* C3 (amended): with valid parameters the call is accepted; the pieces a chunk is
\* joined from begin inside the document and strictly after those of the chunk
\* before it (so a document of n characters gives at most n chunks), a chunk
\* never starts before the chunk before it, and until the call has returned one
\* of its steps can be taken.
C3_AcceptedAndProgresses ==
    ValidParameters =>
        /\ split_pc # "raised"
        /\ \/ split_pc = "start"
           \/ split_pc = "loop" /\ doc_index <= Len(documents)
           \/ split_pc = "returned" /\ doc_index = Len(documents)
        /\ \A d \in 1..Len(documents) :
              Len(ChunksOf(d - 1)) <= Len(documents[d].page_content)
        /\ \A i \in 1..Len(all_document_chunks) :
              /\ all_document_chunks[i].window >= 0
              /\ all_document_chunks[i].window
                    < Len(documents[all_document_chunks[i].parent + 1].page_content)
        /\ \A i \in 2..Len(all_document_chunks) :
              all_document_chunks[i].parent = all_document_chunks[i - 1].parent
              => /\ all_document_chunks[i].window > all_document_chunks[i - 1].window
                 /\ all_document_chunks[i].start >= all_document_chunks[i - 1].start

\* chunk_overlap = chunk_size - 1 on a text without any separator, cut into
\* several chunks.
C3_Witness ==
    /\ split_pc = "returned"
    /\ chunk_size >= 2
    /\ chunk_overlap = chunk_size - 1
    /\ documents[1].page_content = [i \in 1..(chunk_size + 1) |-> "a"]
    /\ Len(all_document_chunks) >= 2

\* C4 as stated: with valid parameters a document of length >= 1 has at least one
\* chunk in the result.
C4_Original ==
    (ValidParameters /\ split_pc = "returned") =>
        \A d \in 1..Len(documents) :
            Len(documents[d].page_content) >= 1 => ChunksOf(d - 1) # <<>>

\* C4 (amended): with valid parameters a document whose content holds a character
\* other than whitespace has at least one chunk in the result.
C4_TextGivesChunk ==
    (ValidParameters /\ split_pc = "returned") =>
        \A d \in 1..Len(documents) :
            NonWhitespace(documents[d].page_content) => ChunksOf(d - 1) # <<>>

\* A document that is mostly whitespace, with one letter, gave exactly one chunk.
C4_Witness ==
    /\ split_pc = "returned"
    /\ ValidParameters
    /\ Len(documents[1].page_content) >= 3
    /\ Cardinality({i \in 1..Len(documents[1].page_content) :
                      documents[1].page_content[i] = "a"}) = 1
    /\ documents[1].page_content[1] = " "
    /\ Len(all_document_chunks) = 1

\* C5: the metadata of every chunk holds every key of its document's metadata
\* with the same value.
C5_MetadataSuperset ==
    \A i \in 1..Len(all_document_chunks) :
        LET chunk  == all_document_chunks[i]
            parent == documents[chunk.parent + 1]
        IN  \A k \in DOMAIN parent.metadata :
                /\ k \in DOMAIN chunk.metadata
                /\ chunk.metadata[k] = parent.metadata[k]

Indices(n) == [i \in 1..n |-> i]

\* The file was read and one of its pages gave text other than whitespace.
FileYieldsText(f) ==
    /\ f.kind = "pdf"
    /\ \E j \in 1..Len(f.pages) : f.pages[j].ok /\ NonWhitespace(f.pages[j].text)

\* The text of the pages that were extracted and hold text other than
\* whitespace, in page order, each followed by the paragraph separator.
RECURSIVE ExpectedText(_)
ExpectedText(pages) ==
    IF pages = <<>> THEN <<>>
    ELSE (IF Head(pages).ok /\ NonWhitespace(Head(pages).text)
          THEN Head(pages).text \o <<"\n", "\n">>
          ELSE <<>>) \o ExpectedText(Tail(pages))

Trimmed(t) ==
    LET keep == {i \in 1..Len(t) : t[i] \notin {" ", "\n"}}
    IN  IF keep = {} THEN <<>> ELSE SubSeq(t, MinOf(keep), MaxOf(keep))

\* C6: a path that does not exist raises FileNotFoundError, a path that is not a
\* directory raises ValueError; the error reaches the caller and no file was
\* opened before it.
C6_PathErrorsPropagate ==
    /\ (path_kind = "missing" /\ load_pc # "start")
       => /\ load_pc = "raised"
          /\ load_error = "FileNotFoundError"
          /\ opened = <<>>
          /\ extracted_documents = <<>>
    /\ (path_kind = "file" /\ load_pc # "start")
       => /\ load_pc = "raised"
          /\ load_error = "ValueError"
          /\ opened = <<>>
          /\ extracted_documents = <<>>

\* The path named a file and the call raised ValueError.
C6_Witness ==
    /\ path_kind = "file"
    /\ load_pc = "raised"
    /\ load_error = "ValueError"

\* C7: on an existing directory no error escapes the call; a file that failed to
\* open or to parse is not in the output; every file after it is still opened,
\* and the call returns only after the last file.
C7_FileFailureNotFatal ==
    path_kind = "dir" =>
        /\ load_pc # "raised"
        /\ load_error = "none"
        /\ \A i \in 1..Len(extracted_documents) :
              pdf_files[extracted_documents[i].metadata.filename].kind = "pdf"
        /\ load_pc = "returned" =>
              /\ file_idx = Len(pdf_files)
              /\ \A i \in 1..Len(pdf_files) : pdf_files[i].kind # "unread"
              /\ opened = SelectSeq(Indices(Len(pdf_files)),
                                    LAMBDA i : pdf_files[i].kind # "unopenable")

\* Three files, the first cannot be opened, the second cannot be parsed: the
\* call returned the document of the third.
C7_Witness ==
    /\ load_pc = "returned"
    /\ Len(pdf_files) = 3
    /\ pdf_files[1].kind = "unopenable"
    /\ pdf_files[2].kind = "corrupt"
    /\ Len(extracted_documents) = 1
    /\ extracted_documents[1].metadata.filename = 3

\* C8: the output is one document for each enumerated file that was read and
\* gave text other than whitespace, in enumeration order, and nothing else.
C8_OutputIsTextFilesInOrder ==
    load_pc = "returned" =>
        [i \in 1..Len(extracted_documents) |-> extracted_documents[i].metadata.filename]
            = SelectSeq(Indices(Len(pdf_files)), LAMBDA i : FileYieldsText(pdf_files[i]))

\* A file whose only page is blank lies between two files with text: the output
\* holds the first and the third.
C8_Witness ==
    /\ load_pc = "returned"
    /\ Len(pdf_files) = 3
    /\ pdf_files[2].kind = "pdf"
    /\ Len(pdf_files[2].pages) = 1
    /\ pdf_files[2].pages[1].ok
    /\ ~NonWhitespace(pdf_files[2].pages[1].text)
    /\ Len(extracted_documents) = 2
    /\ extracted_documents[1].metadata.filename = 1
    /\ extracted_documents[2].metadata.filename = 3

\* C9: a page whose extraction raises is skipped and the pages after it are
\* read: while a file is read the text collected is that of the pages read so far
\* that were extracted and hold text other than whitespace, each followed by the
\* paragraph separator; the document's content is that text of all pages of the
\* file, stripped.
C9_ContentIsGoodPagesInOrder ==
    /\ load_pc = "pages" =>
          document_text =
             ExpectedText(pdf_files[file_idx + 1].pages)
    /\ load_pc = "pages" => Len(pdf_files[file_idx + 1].pages) = page_number
    /\ \A i \in 1..Len(extracted_documents) :
          LET f == pdf_files[extracted_documents[i].metadata.filename]
          IN  /\ extracted_documents[i].page_content = Trimmed(ExpectedText(f.pages))
              /\ extracted_documents[i].metadata.page_count = Len(f.pages)
              /\ f.kind = "pdf"
              /\ f.page_count = Len(f.pages)

\* A file of three pages whose second page raises: the document holds the first
\* and the third page.
C9_Witness ==
    /\ load_pc = "returned"
    /\ Len(pdf_files) = 1
    /\ Len(pdf_files[1].pages) = 3
    /\ pdf_files[1].pages[1].ok
    /\ ~pdf_files[1].pages[2].ok
    /\ pdf_files[1].pages[3].ok
    /\ Len(extracted_documents) = 1
    /\ extracted_documents[1].page_content = <<"a", "\n", "\n", " ", "b">>

\* C10: an existing directory without matching files returns the empty sequence
\* and raises nothing.
C10_EmptyDirectoryReturnsEmpty ==
    (path_kind = "dir" /\ pdf_files = <<>> /\ load_pc # "start")
    => /\ load_pc = "returned"
       /\ load_error = "none"
       /\ extracted_documents = <<>>
       /\ opened = <<>>

\* The directory held no PDF file and the call returned.
C10_Witness ==
    /\ path_kind = "dir"
    /\ pdf_files = <<>>
    /\ load_pc = "returned"
    /\ extracted_documents = <<>>

\* C11: the chunks come in the order of their documents and, inside a document,
\* in the order of the text; each is the text of its parent at its place; for
\* the chunks of one parent chunk_index counts 0, 1, ... in output order,
\* total_chunks is their number, chunk_size the length of the chunk's content
\* and parent_document_index the parent's 0-based position.
C11_OrderAndChunkMetadata ==
    ValidParameters =>
        /\ \A i \in 1..Len(all_document_chunks) :
              LET chunk == all_document_chunks[i]
              IN  /\ chunk.parent \in 0..(doc_index - 1)
                  /\ chunk.page_content =
                        SubSeq(documents[chunk.parent + 1].page_content,
                               chunk.start + 1, chunk.start + Len(chunk.page_content))
                  /\ chunk.metadata.parent_document_index = chunk.parent
                  /\ chunk.metadata.chunk_size = Len(chunk.page_content)
        /\ \A i \in 2..Len(all_document_chunks) :
              /\ all_document_chunks[i].parent >= all_document_chunks[i - 1].parent
              /\ all_document_chunks[i].parent = all_document_chunks[i - 1].parent
                 => all_document_chunks[i].start >= all_document_chunks[i - 1].start
        /\ \A d \in 0..(Len(documents) - 1) :
              \A k \in 1..Len(ChunksOf(d)) :
                  /\ ChunksOf(d)[k].metadata.chunk_index = k - 1
                  /\ ChunksOf(d)[k].metadata.total_chunks = Len(ChunksOf(d))

\* Two documents were chunked, the first into several chunks.
C11_Witness ==
    /\ split_pc = "returned"
    /\ Len(documents) = 2
    /\ Len(ChunksOf(0)) >= 2
    /\ Len(ChunksOf(1)) >= 1

\* C12: with valid parameters the call does not fail when the processing of one
\* document raises: the result holds no chunk of that document, and of every
\* other document exactly the chunks it gives on its own, under its position.
C12_DocumentFailureIsolated ==
    ValidParameters =>
        /\ split_pc # "raised"
        /\ split_pc = "returned" =>
              \A d \in 1..Len(documents) :
                  IF documents[d] = NotADocument
                  THEN ChunksOf(d - 1) = <<>>
                  ELSE ChunksOf(d - 1) =
                          document_chunks(documents[d], d - 1, chunk_size, chunk_overlap)

\* The second element raised after the first document had given chunks.
C12_Witness ==
    /\ split_pc = "returned"
    /\ Len(documents) = 2
    /\ documents[2] = NotADocument
    /\ Len(all_document_chunks) >= 2
    /\ ChunksOf(0) = all_document_chunks

\* The first element raised and the document after it was still chunked.
C12_WitnessAfter ==
    /\ split_pc = "returned"
    /\ Len(documents) = 2
    /\ documents[1] = NotADocument
    /\ ChunksOf(1) # <<>>

\* C13: a chunk and the chunk after it (same document) share at most
\* chunk_overlap characters of the document: the later one starts at most
\* chunk_overlap characters before the end of the earlier one.
C13_OverlapBounded ==
    ValidParameters =>
        \A i \in 2..Len(all_document_chunks) :
            all_document_chunks[i].parent = all_document_chunks[i - 1].parent
            => all_document_chunks[i - 1].start
                 + Len(all_document_chunks[i - 1].page_content)
                 - all_document_chunks[i].start <= chunk_overlap

\* Two chunks in a row share exactly chunk_overlap >= 1 characters.
C13_Witness ==
    /\ split_pc = "returned"
    /\ chunk_overlap >= 1
    /\ \E i \in 2..Len(all_document_chunks) :
          all_document_chunks[i - 1].start + Len(all_document_chunks[i - 1].page_content)
            - all_document_chunks[i].start = chunk_overlap

\* The offsets (characters in front) at which a chunk begins or ends.
ChunkEdges == {all_document_chunks[i].start : i \in 1..Len(all_document_chunks)}
              \cup {all_document_chunks[i].start + Len(all_document_chunks[i].page_content) :
                      i \in 1..Len(all_document_chunks)}

\* No chunk begins or ends inside piece p, but for whitespace of p that strip()
\* took off the chunk.
Uncut(p, edges) ==
    \A e \in edges :
        (p.off < e /\ e < p.off + Len(p.txt))
        => \/ \A j \in 1..(e - p.off) : IsWhitespace(p.txt[j])
           \/ \A j \in (e - p.off + 1)..Len(p.txt) : IsWhitespace(p.txt[j])

\* The pieces of p between the boundaries of the highest class of separators
\* found in p are not cut inside when they fit in cs, and the classes below are
\* applied only to the pieces that exceed cs.
RECURSIVE CutByPriority(_, _, _, _)
CutByPriority(p, separators, cs, edges) ==
    IF separators = <<>> THEN TRUE
    ELSE IF Head(separators) # <<>> /\ ~Contains(p.txt, Head(separators))
    THEN CutByPriority(p, Tail(separators), cs, edges)
    ELSE LET pieces == split_text_with_regex(p, Head(separators))
         IN  \A k \in 1..Len(pieces) :
                 IF Len(pieces[k].txt) <= cs
                 THEN Uncut(pieces[k], edges)
                 ELSE CutByPriority(pieces[k], Tail(separators), cs, edges)

\* C14: boundaries are chosen in the order of Separators: a piece between
\* boundaries of one class that fits in chunk_size is never cut at a boundary of
\* a lower class, so a text whose pieces between its highest boundaries all fit
\* is cut at those boundaries only.
C14_BoundariesByPriority ==
    (ValidParameters /\ split_pc = "returned") =>
        CutByPriority([off |-> 0, txt |-> documents[1].page_content], Separators,
                      chunk_size, ChunkEdges)

\* A text with a line break and a space: the piece in front of the line break
\* fits and is a chunk of its own, the piece after it is too long and is cut at
\* the space.
C14_Witness ==
    /\ split_pc = "returned"
    /\ documents[1].page_content = <<"a", "\n", "a", " ", "a">>
    /\ chunk_size = 3
    /\ chunk_overlap = 0
    /\ Len(all_document_chunks) = 3
    /\ all_document_chunks[2].start = 2
    /\ all_document_chunks[3].start = 4

\* C15: a second call on the same list of documents with the same parameters
\* ends as the first did, with the same chunks (content and metadata) in the
\* same order.
C15_SecondCallSame ==
    (call_number = 2 /\ SplitFinished) =>
        /\ split_pc = first_result.pc
        /\ split_error = first_result.error
        /\ all_document_chunks = first_result.chunks

\* Both calls returned several chunks.
C15_Witness ==
    /\ call_number = 2
    /\ split_pc = "returned"
    /\ Len(first_result.chunks) >= 2
    /\ Len(all_document_chunks) >= 2

\* C19: no step of the call changes the list of documents, the content of a
\* document or its metadata mapping.
C19_InputNotMutated == [][documents' = documents]_vars

\* Chunks were returned whose metadata holds the chunk keys while the parent's
\* metadata does not.
C19_Witness ==
    /\ split_pc = "returned"
    /\ all_document_chunks # <<>>
    /\ \A i \in 1..Len(all_document_chunks) :
          /\ "chunk_index" \in DOMAIN all_document_chunks[i].metadata
          /\ "chunk_index" \notin
                DOMAIN documents[all_document_chunks[i].parent + 1].metadata

\* C20: no documents and valid parameters: the call returns, with no chunk and
\* no error.
C20_EmptyInputReturnsEmpty ==
    (documents = <<>> /\ ValidParameters /\ split_pc # "start") =>
        /\ split_pc = "returned"
        /\ all_document_chunks = <<>>
        /\ split_error = "none"

\* The call on no documents has returned.
C20_Witness ==
    /\ documents = <<>>
    /\ ValidParameters
    /\ split_pc = "returned"
    /\ all_document_chunks = <<>>

\* C16: initialize_medical_embedding_model returns the model only if it was
\* constructed and its self-test passed, and None otherwise; it always returns.
C16_HandleOnlyAfterSelfTest ==
    /\ embed_pc = "returned" =>
          /\ embeddings \in {"model", "None"}
          /\ embeddings = "model" <=> (medical_embeddings = "model" /\ self_test = "passed")
    /\ embed_pc # "returned" => embeddings = "unset"
    /\ self_test # "not_run" => medical_embeddings = "model"

\* The model was constructed, its self-test raised and None was returned.
C16_Witness ==
    /\ embed_pc = "returned"
    /\ medical_embeddings = "model"
    /\ self_test = "failed"
    /\ embeddings = "None"

\* The model was constructed, passed its self-test and was returned.
C16_WitnessHandle ==
    /\ embed_pc = "returned"
    /\ self_test = "passed"
    /\ embeddings = "model"

\* C17: in the ingestion run document loading, chunking, index creation and
\* the filling of the vector store are reached only once the embedding model
\* was returned and is not None.
C17_StagesAfterUsableHandle ==
    ingest_pc \in {"load", "split", "create_index", "store", "done"}
    => embeddings = "model"

\* C18: at most one file is open at any time, and none between two files or once
\* the call has returned or raised.
C18_OneHandleAtATime ==
    /\ Cardinality(open_handles) <= 1
    /\ open_handles \subseteq {file_idx + 1}
    /\ load_pc \in {"parse", "pages"} <=> open_handles # {}
    /\ \A i \in 1..Len(opened) : opened[i] = file_idx + 1 \/ opened[i] \notin open_handles

\* Three files were opened one after the other: one could not be parsed, one
\* had a page whose extraction raised, one had no text; the call returned.
C18_Witness ==
    /\ load_pc = "returned"
    /\ Len(opened) = 3
    /\ \E i \in 1..3 : pdf_files[i].kind = "corrupt"
    /\ \E i \in 1..3 :
          /\ pdf_files[i].kind = "pdf"
          /\ \E j \in 1..Len(pdf_files[i].pages) : ~pdf_files[i].pages[j].ok
    /\ \E i \in 1..3 :
          /\ pdf_files[i].kind = "pdf"
          /\ ~FileYieldsText(pdf_files[i])
          /\ \A j \in 1..Len(pdf_files[i].pages) : pdf_files[i].pages[j].ok
    /\ open_handles = {}

\* C21: in app.py a POST to /get without a msg field is answered with status
\* 400 and the RAG chain is not invoked.
C21_MissingMsgIs400 ==
    (chat_app = "app" /\ chat_request.route = "/get" /\ ~chat_request.has_msg)
    => /\ chat_response.status = 400
       /\ ~chat_response.invoked

AllComponents ==
    /\ medical_embeddings_model # "None"
    /\ medical_document_retriever # "None"
    /\ medical_language_model # "None"
    /\ medical_rag_chain # "None"

\* C25: in app.py the components are built in the order embeddings, retriever,
\* language model, RAG chain and none is built after one that failed; the
\* initialization returns True exactly when all four are there; the server
\* handles requests only after True and exits after False; while it serves, all
\* four are there and ready_for_queries of /health agrees with the availability
\* check of /get.
C25_ServesOnlyInitialized ==
    chat_app = "app" =>
        /\ medical_document_retriever # "None" => medical_embeddings_model # "None"
        /\ medical_language_model # "None" => medical_document_retriever # "None"
        /\ medical_rag_chain # "None" => medical_language_model # "None"
        /\ initialized = "True" <=> AllComponents
        /\ initialized = "unset" <=>
              chat_pc \in {"start", "embeddings", "retriever", "llm", "chain"}
        /\ chat_pc = "serving" =>
              /\ initialized = "True"
              /\ AllComponents
              /\ ready_for_queries(medical_embeddings_model, medical_document_retriever,
                                   medical_language_model, medical_rag_chain)
                 <=> ~system_unavailable(medical_rag_chain, medical_document_retriever,
                                         medical_language_model)
        /\ initialized = "False" => chat_pc \in {"initialized", "exited"}
        /\ (chat_handled > 0 \/ chat_in_flight # <<>>) =>
              /\ chat_pc \in {"serving", "exited"}
              /\ initialized = "True"
              /\ AllComponents
        /\ chat_request.route = "/health"
           => chat_response.body = <<"healthy", "ready_for_queries: true">>
        /\ chat_request.route = "/get"
           => chat_response.body # <<"Sorry, the medical AI assistant is currently unavailable.">>

\* The server of app.py was initialized and has answered /health after /get.
C25_Witness ==
    /\ chat_app = "app"
    /\ chat_pc = "serving"
    /\ chat_handled = 2
    /\ chat_request.route = "/health"

\* The retriever could not be set up: the language model and the chain were not
\* built and the server did not start.
C25_WitnessExit ==
    /\ chat_app = "app"
    /\ chat_pc = "exited"
    /\ medical_embeddings_model # "None"
    /\ medical_document_retriever = "None"
    /\ medical_language_model = "None"
    /\ medical_rag_chain = "None"

\* The body ends with the medical disclaimer and has front in front of it.
WithDisclaimer(body, front) == body = front \o medical_disclaimer

\* C26: for POST /get the answer generator is invoked only with the stripped
\* question, which is not empty and at most 1000 characters long, in app.py
\* only with RAG chain, retriever and language model there; without an
\* invocation the answer is one fixed message; an answer that was generated is
\* returned with the disclaimer appended.
C26_GeneratorGuarded ==
    /\ \A i \in 1..Len(chat_in_flight) :
          /\ chat_in_flight[i].has_msg
          /\ Trimmed(chat_in_flight[i].msg) # <<>>
          /\ Len(Trimmed(chat_in_flight[i].msg)) <= MaxQuestionLength
          /\ medical_rag_chain # "None"
          /\ medical_document_retriever # "None"
          /\ medical_language_model # "None"
    /\ chat_request.route = "/get" =>
        /\ chat_response.invoked =>
              /\ chat_request.has_msg
              /\ chat_response.question = Trimmed(chat_request.msg)
              /\ chat_response.question # <<>>
              /\ Len(chat_response.question) <= MaxQuestionLength
              /\ chat_app = "app" =>
                    /\ medical_rag_chain # "None"
                    /\ medical_document_retriever # "None"
                    /\ medical_language_model # "None"
              /\ chat_request.outcome.kind = "answer" =>
                    WithDisclaimer(chat_response.body,
                                   IF chat_app = "app"
                                   THEN Trimmed(chat_request.outcome.answer)
                                   ELSE chat_request.outcome.answer)
        /\ ~chat_response.invoked =>
              /\ Len(chat_response.body) = 1
              /\ chat_response.question = <<>>
              /\ \/ ~chat_request.has_msg
                 \/ Trimmed(chat_request.msg) = <<>>
                 \/ Len(Trimmed(chat_request.msg)) > MaxQuestionLength

\* A question of exactly 1000 characters between whitespace was answered by
\* app.py, with the disclaimer.
C26_Witness ==
    /\ chat_app = "app"
    /\ chat_request.route = "/get"
    /\ Len(chat_request.msg) = MaxQuestionLength + 2
    /\ chat_response.invoked
    /\ chat_request.outcome.kind = "answer"
    /\ Len(chat_response.body) > Len(medical_disclaimer)

\* simple_app.py refused a question of 1001 characters without calling
\* get_medical_response.
C26_WitnessSimple ==
    /\ chat_app = "simple_app"
    /\ chat_request.route = "/get"
    /\ Len(chat_request.msg) = MaxQuestionLength + 1
    /\ ~chat_response.invoked

\* The requests to one endpoint that were answered.
Answered(endpoint) ==
    {r \in 1..Len(tool_requests) :
        tool_requests[r].endpoint = endpoint /\ tool_requests[r].pc = "done"}

\* C22: a file whose extension is not allowed is rejected with status 400; no
\* temporary file is created for it and the speech model is not called.
C22_UnsupportedFormatIs400 ==
    \A r \in Answered("transcribe") :
        lower(tool_requests[r].ext) \notin allowed_extensions
        => /\ tool_requests[r].status = 400
           /\ ~tool_requests[r].created_temp
           /\ ~tool_requests[r].model_called

\* C23: a transcript that is empty or only whitespace is rejected with status
\* 400 and cleanup_transcript is not called.
C23_EmptyTranscriptIs400 ==
    \A r \in Answered("cleanup") :
        Trimmed(tool_requests[r].transcript) = <<>>
        => /\ tool_requests[r].status = 400
           /\ ~tool_requests[r].llm_called

\* C24: the temporary file of a request to /api/transcribe is gone when the
\* request is answered.
C24_TempFileDeleted ==
    \A r \in Answered("transcribe") : r \notin temp_files

\* C27: however the requests follow and interleave, at most one load succeeds,
\* every request that got a model got the same one, the cache is empty exactly
\* while no load has succeeded, and a load is made only while it is empty.
C27_ModelLoadedOnce ==
    LET loaders == {r \in 1..Len(tool_requests) : tool_requests[r].loaded # 0}
        holders == {r \in 1..Len(tool_requests) : tool_requests[r].handle # 0}
    IN  /\ Cardinality(loaders) <= 1
        /\ \A r1 \in holders, r2 \in holders :
              tool_requests[r1].handle = tool_requests[r2].handle
        /\ \A r \in holders : tool_requests[r].handle = _model
        /\ _model = 0 <=> loaders = {}
        /\ \A r \in loaders : tool_requests[r].loaded = _model
        /\ \A r \in 1..Len(tool_requests) :
              tool_requests[r].pc = "loading" => _model = 0

\* The load of the first request raised, the second request loaded the model,
\* and both are answered.
C27_Witness ==
    /\ Len(tool_requests) = 2
    /\ tool_requests[1].pc = "done"
    /\ tool_requests[2].pc = "done"
    /\ load_count = 2
    /\ tool_requests[2].loaded = 2
    /\ tool_requests[2].handle = 2
    /\ _model = 2

\* Two requests were in flight together (both uploads awaited), one loaded
\* the model and the other got the cached one.
C27_WitnessCached ==
    /\ Len(tool_requests) = 2
    /\ tool_requests[1].handle # 0
    /\ tool_requests[2].handle = tool_requests[1].handle
    /\ load_count = 1

====
